---- MODULE Spec2Model ----
(***************************************************************************)
(* The presentation layer of the Minesweeper game of src/run.py: the       *)
(* InputController (pos_to_grid, handle_mouse) and the Game object (reset, *)
(* set_difficulty, _elapsed_ms, draw, run_step) with the main loop.        *)
(*                                                                         *)
(* components.Board and config are modules of the repository that are not  *)
(* among the sources.  Board is modelled from the Grid Model contract of   *)
(* the specification (sections 3 and 6), with the outcome of a reveal and  *)
(* the answer of get_hint_coordinates left open.  The constants of config  *)
(* get small values, and the clock is read in the same small units.        *)
(***************************************************************************)
EXTENDS Integers, Sequences, FiniteSets

\* ------------------------------------------------------------ bounds
\* The largest value pygame.time.get_ticks() is let to reach.
MaxTime == 2
\* The largest number of events one pygame.event.get() returns.
MaxBatch == 2

\* ------------------------------------------------------------ config
cell_size == 2
margin_left == 1
margin_top == 3
margin_right == 2
margin_bottom == 1
highlight_duration_ms == 1
mouse_left == 1
mouse_middle == 2
mouse_right == 3

\* The three difficulty tiers run_step selects with the keys 1, 2 and 3.
Tiers ==
  [ k1 |-> [cols |-> 9,  rows |-> 9,  num_mines |-> 10],
    k2 |-> [cols |-> 16, rows |-> 16, num_mines |-> 40],
    k3 |-> [cols |-> 24, rows |-> 24, num_mines |-> 99] ]

TierKeys == {"k1", "k2", "k3"}

\* config.width, config.height and config.display_dimension, as
\* set_difficulty computes them (and as config derives them at import).
Geometry(cols, rows) ==
  LET w == margin_left + cols * cell_size + margin_right
      h == margin_top + rows * cell_size + margin_bottom
  IN  [width |-> w, height |-> h, display_dimension |-> <<w, h>>]

Config(cols, rows, mines) ==
  LET geo == Geometry(cols, rows)
  IN  [cols |-> cols, rows |-> rows, num_mines |-> mines,
       width |-> geo.width, height |-> geo.height,
       display_dimension |-> geo.display_dimension]

\* ------------------------------------------------------------ Board
None == <<>>
\* Python's None where the other values are strings.
NoText == "None"

\* Board(cols, rows, mines): a new grid, nothing revealed or flagged.
Board(cols, rows, mines) ==
  [cols |-> cols, rows |-> rows, num_mines |-> mines,
   revealed |-> {}, flagged |-> {}, game_over |-> FALSE, win |-> FALSE]

InBoard(b, c, r) == 0 <= c /\ c < b.cols /\ 0 <= r /\ r < b.rows

\* Board.neighbors(col, row): the cells around (col, row) that are in the grid.
neighbors(b, c, r) ==
  {p \in ((c - 1)..(c + 1)) \X ((r - 1)..(r + 1)) :
      p # <<c, r>> /\ InBoard(b, p[1], p[2])}

\* What a reveal of a hidden cell may do, which the mine layout decides.
Outcomes == {"safe", "flood", "mine", "win"}

\* Board.reveal(col, row).  A finished game, a revealed cell and a flagged
\* cell are left alone; game_over and win are exclusive and stay set.
reveal(b, c, r, outcome) ==
  IF b.game_over \/ b.win \/ <<c, r>> \in b.revealed \/ <<c, r>> \in b.flagged
  THEN b
  ELSE LET opened == IF outcome = "flood"
                     THEN {<<c, r>>} \cup (neighbors(b, c, r) \ b.flagged)
                     ELSE {<<c, r>>}
       IN  [b EXCEPT !.revealed = @ \cup opened,
                     !.game_over = (outcome = "mine"),
                     !.win = (outcome = "win")]

\* Board.toggle_flag(col, row): a revealed cell takes no flag.
toggle_flag(b, c, r) ==
  IF <<c, r>> \in b.revealed THEN b
  ELSE IF <<c, r>> \in b.flagged
       THEN [b EXCEPT !.flagged = @ \ {<<c, r>>}]
       ELSE [b EXCEPT !.flagged = @ \cup {<<c, r>>}]

\* Board.flagged_count()
flagged_count(b) == Cardinality(b.flagged)

\* The answers get_hint_coordinates() may give: no coordinate, or a cell of
\* the grid that is not revealed (the first and the last cell stand for all).
HintAnswers(b) ==
  {None} \cup ({<<0, 0>>, <<b.cols - 1, b.rows - 1>>} \ b.revealed)

\* ------------------------------------------------------------ state
VARIABLES
  game,       \* the Game object with config and the display mode
  pc,         \* where main is: get, events, draw, tick, quit, done
  pending,    \* arrival numbers of the events run_step has still to handle
  quit_at,    \* arrival number of the first QUIT among them, 0 if there is none
  handled,    \* arrival numbers of the events run_step has dispatched
  last,       \* the event dispatched last, while run_step is in its loop
  drawn,      \* the frames this run_step has drawn
  running,    \* main's loop variable
  exit_code   \* what main returned: None while it runs, then <<code>>

vars ==
  <<game, pc, pending, quit_at, handled, last, drawn, running, exit_code>>

\* What pygame.time.get_ticks() may read after it has read t: the clock
\* never runs backwards.
Readings(t) == t..MaxTime

\* Game.__init__ for the profile config holds when the program starts.
\* ticks is the last reading of the clock.  Three fields are history, not
\* program state: calls lists the Board calls of the handler now running,
\* frozen holds the elapsed time as it was when run_step recorded the end
\* of the session (None while no end is recorded), and renewed tells that
\* reset() has run in the run_step now running.
NewGame(cfg) ==
  [config |-> cfg,
   window |-> cfg.display_dimension,
   board |-> Board(cfg.cols, cfg.rows, cfg.num_mines),
   renderer_board |-> "current",
   highlight_targets |-> {},
   highlight_until_ms |-> 0,
   started |-> FALSE,
   start_ticks_ms |-> 0,
   end_ticks_ms |-> 0,
   ticks |-> 0,
   calls |-> <<>>,
   frozen |-> None,
   renewed |-> FALSE]

\* ------------------------------------------------------------ InputController
Invalid == <<-1, -1>>

\* pos_to_grid with the left and top margins forgotten in the division.
pos_to_grid_ForgetsMargin(g, x, y) ==
  IF ~(margin_left <= x /\ x < g.config.width - margin_right) THEN Invalid
  ELSE IF ~(margin_top <= y /\ y < g.config.height - margin_bottom) THEN Invalid
  ELSE LET col == x \div cell_size
           row == y \div cell_size
       IN  IF 0 <= col /\ col < g.board.cols /\ 0 <= row /\ row < g.board.rows
           THEN <<col, row>>
           ELSE Invalid

\* InputController.pos_to_grid(x, y)
pos_to_grid(g, x, y) ==
  IF ~(margin_left <= x /\ x < g.config.width - margin_right) THEN Invalid
  ELSE IF ~(margin_top <= y /\ y < g.config.height - margin_bottom) THEN Invalid
  ELSE LET col == (x - margin_left) \div cell_size
           row == (y - margin_top) \div cell_size
       IN  IF 0 <= col /\ col < g.board.cols /\ 0 <= row /\ row < g.board.rows
           THEN <<col, row>>
           ELSE Invalid

\* handle_mouse with the test of started left out: every primary click sets
\* the start time.
handle_mouse_RestartsClock(g, pos, button, t, outcome) ==
  LET cell == pos_to_grid(g, pos[1], pos[2])
      col == cell[1]
      row == cell[2]
  IN  IF col = -1 THEN g
      ELSE IF button = mouse_left THEN
        [g EXCEPT !.highlight_targets = {},
                  !.started = TRUE,
                  !.start_ticks_ms = t,
                  !.ticks = t,
                  !.board = reveal(@, col, row, outcome),
                  !.calls = Append(@, <<"reveal", col, row>>)]
      ELSE IF button = mouse_right THEN
        [g EXCEPT !.highlight_targets = {},
                  !.board = toggle_flag(@, col, row),
                  !.calls = Append(@, <<"toggle_flag", col, row>>)]
      ELSE IF button = mouse_middle THEN
        [g EXCEPT !.highlight_targets =
                      {p \in neighbors(g.board, col, row) :
                          p \notin g.board.revealed},
                  !.highlight_until_ms = t + highlight_duration_ms,
                  !.ticks = t,
                  !.calls = Append(@, <<"neighbors", col, row>>)]
      ELSE g

\* handle_mouse with the tertiary button adding to the Highlight Set.
handle_mouse_PreviewAccumulates(g, pos, button, t, outcome) ==
  LET cell == pos_to_grid(g, pos[1], pos[2])
      col == cell[1]
      row == cell[2]
  IN  IF col = -1 THEN g
      ELSE IF button = mouse_left THEN
        LET g1 == [g EXCEPT !.highlight_targets = {}]
            g2 == IF ~g1.started
                  THEN [g1 EXCEPT !.started = TRUE, !.start_ticks_ms = t,
                                  !.ticks = t]
                  ELSE g1
        IN  [g2 EXCEPT !.board = reveal(@, col, row, outcome),
                       !.calls = Append(@, <<"reveal", col, row>>)]
      ELSE IF button = mouse_right THEN
        [g EXCEPT !.highlight_targets = {},
                  !.board = toggle_flag(@, col, row),
                  !.calls = Append(@, <<"toggle_flag", col, row>>)]
      ELSE IF button = mouse_middle THEN
        [g EXCEPT !.highlight_targets =
                      @ \cup {p \in neighbors(g.board, col, row) :
                                 p \notin g.board.revealed},
                  !.highlight_until_ms = t + highlight_duration_ms,
                  !.ticks = t,
                  !.calls = Append(@, <<"neighbors", col, row>>)]
      ELSE g

\* handle_mouse with the Highlight Set cleared before the position is
\* resolved: a click outside the grid clears it too.
handle_mouse_ClearsOnInvalid(g, pos, button, t, outcome) ==
  LET cell == pos_to_grid(g, pos[1], pos[2])
      col == cell[1]
      row == cell[2]
  IN  IF col = -1 THEN [g EXCEPT !.highlight_targets = {}]
      ELSE IF button = mouse_left THEN
        LET g1 == [g EXCEPT !.highlight_targets = {}]
            g2 == IF ~g1.started
                  THEN [g1 EXCEPT !.started = TRUE, !.start_ticks_ms = t,
                                  !.ticks = t]
                  ELSE g1
        IN  [g2 EXCEPT !.board = reveal(@, col, row, outcome),
                       !.calls = Append(@, <<"reveal", col, row>>)]
      ELSE IF button = mouse_right THEN
        [g EXCEPT !.highlight_targets = {},
                  !.board = toggle_flag(@, col, row),
                  !.calls = Append(@, <<"toggle_flag", col, row>>)]
      ELSE IF button = mouse_middle THEN
        [g EXCEPT !.highlight_targets =
                      {p \in neighbors(g.board, col, row) :
                          p \notin g.board.revealed},
                  !.highlight_until_ms = t + highlight_duration_ms,
                  !.ticks = t,
                  !.calls = Append(@, <<"neighbors", col, row>>)]
      ELSE g

\* handle_mouse without highlight_targets.clear() at line 145.
handle_mouse_FlagKeepsHighlight(g, pos, button, t, outcome) ==
  LET cell == pos_to_grid(g, pos[1], pos[2])
      col == cell[1]
      row == cell[2]
  IN  IF col = -1 THEN g
      ELSE IF button = mouse_left THEN
        LET g1 == [g EXCEPT !.highlight_targets = {}]
            g2 == IF ~g1.started
                  THEN [g1 EXCEPT !.started = TRUE, !.start_ticks_ms = t,
                                  !.ticks = t]
                  ELSE g1
        IN  [g2 EXCEPT !.board = reveal(@, col, row, outcome),
                       !.calls = Append(@, <<"reveal", col, row>>)]
      ELSE IF button = mouse_right THEN
        [g EXCEPT !.board = toggle_flag(@, col, row),
                  !.calls = Append(@, <<"toggle_flag", col, row>>)]
      ELSE IF button = mouse_middle THEN
        [g EXCEPT !.highlight_targets =
                      {p \in neighbors(g.board, col, row) :
                          p \notin g.board.revealed},
                  !.highlight_until_ms = t + highlight_duration_ms,
                  !.ticks = t,
                  !.calls = Append(@, <<"neighbors", col, row>>)]
      ELSE g

\* handle_mouse with the secondary button starting the clock as the primary
\* button does.
handle_mouse_FlagStartsClock(g, pos, button, t, outcome) ==
  LET cell == pos_to_grid(g, pos[1], pos[2])
      col == cell[1]
      row == cell[2]
  IN  IF col = -1 THEN g
      ELSE IF button = mouse_left THEN
        LET g1 == [g EXCEPT !.highlight_targets = {}]
            g2 == IF ~g1.started
                  THEN [g1 EXCEPT !.started = TRUE, !.start_ticks_ms = t,
                                  !.ticks = t]
                  ELSE g1
        IN  [g2 EXCEPT !.board = reveal(@, col, row, outcome),
                       !.calls = Append(@, <<"reveal", col, row>>)]
      ELSE IF button = mouse_right THEN
        [g EXCEPT !.highlight_targets = {},
                  !.board = toggle_flag(@, col, row),
                  !.started = TRUE,
                  !.start_ticks_ms = IF g.started THEN @ ELSE t,
                  !.ticks = IF g.started THEN @ ELSE t,
                  !.calls = Append(@, <<"toggle_flag", col, row>>)]
      ELSE IF button = mouse_middle THEN
        [g EXCEPT !.highlight_targets =
                      {p \in neighbors(g.board, col, row) :
                          p \notin g.board.revealed},
                  !.highlight_until_ms = t + highlight_duration_ms,
                  !.ticks = t,
                  !.calls = Append(@, <<"neighbors", col, row>>)]
      ELSE g

\* InputController.handle_mouse(pos, button); t is what get_ticks() reads
\* where the handler reads it, outcome what the reveal finds.
handle_mouse(g, pos, button, t, outcome) ==
  LET cell == pos_to_grid(g, pos[1], pos[2])
      col == cell[1]
      row == cell[2]
  IN  IF col = -1 THEN g
      ELSE IF button = mouse_left THEN
        LET g1 == [g EXCEPT !.highlight_targets = {}]
            g2 == IF ~g1.started
                  THEN [g1 EXCEPT !.started = TRUE, !.start_ticks_ms = t,
                                  !.ticks = t]
                  ELSE g1
        IN  [g2 EXCEPT !.board = reveal(@, col, row, outcome),
                       !.calls = Append(@, <<"reveal", col, row>>)]
      ELSE IF button = mouse_right THEN
        [g EXCEPT !.highlight_targets = {},
                  !.board = toggle_flag(@, col, row),
                  !.calls = Append(@, <<"toggle_flag", col, row>>)]
      ELSE IF button = mouse_middle THEN
        [g EXCEPT !.highlight_targets =
                      {p \in neighbors(g.board, col, row) :
                          p \notin g.board.revealed},
                  !.highlight_until_ms = t + highlight_duration_ms,
                  !.ticks = t,
                  !.calls = Append(@, <<"neighbors", col, row>>)]
      ELSE g

\* ------------------------------------------------------------ Game
\* reset without self.renderer.board = self.board.
reset_StaleRenderer(g) ==
  [g EXCEPT
     !.board = Board(g.config.cols, g.config.rows, g.config.num_mines),
     !.renderer_board = "stale",
     !.calls = Append(@, <<"Board", g.config.cols, g.config.rows,
                           g.config.num_mines>>),
     !.highlight_targets = {},
     !.highlight_until_ms = 0,
     !.started = FALSE,
     !.start_ticks_ms = 0,
     !.end_ticks_ms = 0,
     !.frozen = None,
     !.renewed = TRUE]

\* reset without self.end_ticks_ms = 0.
reset_KeepsEndTime(g) ==
  [g EXCEPT
     !.board = Board(g.config.cols, g.config.rows, g.config.num_mines),
     !.renderer_board = "current",
     !.calls = Append(@, <<"Board", g.config.cols, g.config.rows,
                           g.config.num_mines>>),
     !.highlight_targets = {},
     !.highlight_until_ms = 0,
     !.started = FALSE,
     !.start_ticks_ms = 0,
     !.renewed = TRUE]

\* reset without self.highlight_targets.clear().
reset_KeepsHighlight(g) ==
  [g EXCEPT
     !.board = Board(g.config.cols, g.config.rows, g.config.num_mines),
     !.renderer_board = "current",
     !.calls = Append(@, <<"Board", g.config.cols, g.config.rows,
                           g.config.num_mines>>),
     !.highlight_until_ms = 0,
     !.started = FALSE,
     !.start_ticks_ms = 0,
     !.end_ticks_ms = 0,
     !.frozen = None,
     !.renewed = TRUE]

\* Game.reset()
reset(g) ==
  LET g1 == [g EXCEPT
               !.board = Board(g.config.cols, g.config.rows, g.config.num_mines),
               !.renderer_board = "stale",
               !.calls = Append(@, <<"Board", g.config.cols, g.config.rows,
                                     g.config.num_mines>>)]
  IN  [g1 EXCEPT !.renderer_board = "current",
                 !.highlight_targets = {},
                 !.highlight_until_ms = 0,
                 !.started = FALSE,
                 !.start_ticks_ms = 0,
                 !.end_ticks_ms = 0,
                 !.frozen = None,
                 !.renewed = TRUE]

\* set_difficulty without the new width, height and display mode.
set_difficulty_KeepsGeometry(g, cols, rows, mines) ==
  reset([g EXCEPT !.config.cols = cols, !.config.rows = rows,
                  !.config.num_mines = mines])

\* Game.set_difficulty(cols, rows, mines)
set_difficulty(g, cols, rows, mines) ==
  LET cfg == Config(cols, rows, mines)
      g1 == [g EXCEPT !.config = cfg, !.window = cfg.display_dimension]
  IN  reset(g1)

\* _elapsed_ms without the test of started.
elapsed_ms_IgnoresStarted(g, t) ==
  IF g.end_ticks_ms # 0 THEN g.end_ticks_ms - g.start_ticks_ms
  ELSE t - g.start_ticks_ms

\* Game._elapsed_ms(); t is what get_ticks() reads if the method reads it.
elapsed_ms(g, t) ==
  IF ~g.started THEN 0
  ELSE IF g.end_ticks_ms # 0 THEN g.end_ticks_ms - g.start_ticks_ms
  ELSE t - g.start_ticks_ms

\* Game._format_time(ms): minutes, seconds and total seconds of the text.
format_time(ms) ==
  LET total_seconds == ms \div 1000
  IN  <<total_seconds \div 60, total_seconds % 60, total_seconds>>

\* _result_text without the test of win.
result_text_OverOnly(g) ==
  IF g.board.game_over THEN "GAME OVER"
  ELSE NoText

\* Game._result_text()
result_text(g) ==
  IF g.board.game_over THEN "GAME OVER"
  ELSE IF g.board.win THEN "GAME CLEAR"
  ELSE NoText

\* The session's phase (section 4.1), which the program does not store.
Phase(g) ==
  IF ~g.started THEN "NotStarted"
  ELSE IF g.end_ticks_ms = 0 THEN "Running"
  ELSE "Ended"

\* draw without max(0, ...) at line 229.
draw_NoClamp(g, t1, t2, t3) ==
  LET g1 == IF t1 > g.highlight_until_ms /\ g.highlight_targets # {}
            THEN [g EXCEPT !.highlight_targets = {}]
            ELSE g
      remaining == g1.config.num_mines - flagged_count(g1.board)
      elapsed == elapsed_ms(g1, t2)
      diff_text == IF g1.board.cols = 9 THEN "EASY"
                   ELSE IF g1.board.cols = 16 THEN "NORMAL"
                   ELSE "HARD"
      highlighted == {p \in g1.highlight_targets :
                        /\ InBoard(g1.board, p[1], p[2])
                        /\ t3 <= g1.highlight_until_ms
                        /\ p \notin g1.board.revealed}
  IN  [game |-> [g1 EXCEPT !.ticks = t3],
       frame |-> [remaining |-> remaining,
                  elapsed |-> elapsed,
                  time_text |-> format_time(elapsed),
                  diff_text |-> diff_text,
                  highlighted |-> highlighted,
                  result |-> result_text(g1),
                  board |-> g1.renderer_board,
                  cols |-> g1.board.cols,
                  rows |-> g1.board.rows,
                  window |-> g1.window,
                  at |-> t3]]

\* draw without the test of now against highlight_until_ms at line 245.
draw_IgnoresExpiry(g, t1, t2, t3) ==
  LET g1 == IF t1 > g.highlight_until_ms /\ g.highlight_targets # {}
            THEN [g EXCEPT !.highlight_targets = {}]
            ELSE g
      remaining == IF g1.config.num_mines - flagged_count(g1.board) > 0
                   THEN g1.config.num_mines - flagged_count(g1.board)
                   ELSE 0
      elapsed == elapsed_ms(g1, t2)
      diff_text == IF g1.board.cols = 9 THEN "EASY"
                   ELSE IF g1.board.cols = 16 THEN "NORMAL"
                   ELSE "HARD"
      highlighted == {p \in g1.highlight_targets :
                        /\ InBoard(g1.board, p[1], p[2])
                        /\ p \notin g1.board.revealed}
  IN  [game |-> [g1 EXCEPT !.ticks = t3],
       frame |-> [remaining |-> remaining,
                  elapsed |-> elapsed,
                  time_text |-> format_time(elapsed),
                  diff_text |-> diff_text,
                  highlighted |-> highlighted,
                  result |-> result_text(g1),
                  board |-> g1.renderer_board,
                  cols |-> g1.board.cols,
                  rows |-> g1.board.rows,
                  window |-> g1.window,
                  at |-> t3]]

\* Game.draw(); t1, t2 and t3 are what get_ticks() reads at line 226, in
\* _elapsed_ms and at line 242.  The result is the Game after the frame and
\* the frame: what draw_header, draw_cell and draw_result_overlay are given.
draw(g, t1, t2, t3) ==
  LET g1 == IF t1 > g.highlight_until_ms /\ g.highlight_targets # {}
            THEN [g EXCEPT !.highlight_targets = {}]
            ELSE g
      remaining == IF g1.config.num_mines - flagged_count(g1.board) > 0
                   THEN g1.config.num_mines - flagged_count(g1.board)
                   ELSE 0
      elapsed == elapsed_ms(g1, t2)
      diff_text == IF g1.board.cols = 9 THEN "EASY"
                   ELSE IF g1.board.cols = 16 THEN "NORMAL"
                   ELSE "HARD"
      highlighted == {p \in g1.highlight_targets :
                        /\ InBoard(g1.board, p[1], p[2])
                        /\ t3 <= g1.highlight_until_ms
                        /\ p \notin g1.board.revealed}
  IN  [game |-> [g1 EXCEPT !.ticks = t3],
       frame |-> [remaining |-> remaining,
                  elapsed |-> elapsed,
                  time_text |-> format_time(elapsed),
                  diff_text |-> diff_text,
                  highlighted |-> highlighted,
                  result |-> result_text(g1),
                  board |-> g1.renderer_board,
                  cols |-> g1.board.cols,
                  rows |-> g1.board.rows,
                  window |-> g1.window,
                  at |-> t3]]

\* ------------------------------------------------------------ run_step, main
\* The pixels of the mouse events: one in the header, outside the grid, and
\* one in cell (0, 0).
ClickPositions ==
  { <<0, 0>>,
    <<margin_left + cell_size - 1, margin_top>> }

\* Buttons 1 to 3 and the wheel, which handle_mouse ignores.
Buttons == {mouse_left, mouse_middle, mouse_right, 4}

\* The loop of run_step takes the next pending event: what it dispatched is
\* logged with the phase and the Highlight Set the handler found and the
\* Board calls it made.
Dispatched(g0, g1, type, detail) ==
  /\ game' = [g1 EXCEPT !.calls = <<>>]
  /\ pending' = Tail(pending)
  /\ handled' = Append(handled, Head(pending))
  /\ last' = <<[type |-> type, detail |-> detail, phase |-> Phase(g0),
                highlight |-> g0.highlight_targets, calls |-> g1.calls]>>

\* The loop is at an event, a QUIT or another one.
AtQuit == pc = "events" /\ pending # <<>> /\ Head(pending) = quit_at

AtEvent == pc = "events" /\ pending # <<>> /\ Head(pending) # quit_at

\* main constructs the Game.  The profile config holds at the start is not
\* in the sources: the specification's fresh session is the EASY one.
Init ==
  /\ game = NewGame(Config(9, 9, 10))
  /\ pc = "get"
  /\ pending = <<>>
  /\ quit_at = 0
  /\ handled = <<>>
  /\ last = None
  /\ drawn = <<>>
  /\ running = TRUE
  /\ exit_code = None

\* main: while running, call run_step, whose pygame.event.get() returns the
\* events that have arrived, in arrival order.  Which of them is the first
\* QUIT is settled here; what the others are is read when the loop comes to
\* them.
GetEvents ==
  /\ pc = "get"
  /\ running
  /\ \E k \in 0..MaxBatch :
       /\ pending' = [i \in 1..k |-> i]
       /\ quit_at' \in 0..k
  /\ pc' = "events"
  /\ UNCHANGED <<game, handled, last, drawn, running, exit_code>>

\* A QUIT that the loop passes over.
Quit_PassedOver ==
  /\ AtQuit
  /\ Dispatched(game, game, "QUIT", None)
  /\ UNCHANGED <<pc, quit_at, drawn, running, exit_code>>

\* pygame.QUIT: run_step returns False at once.
Quit ==
  /\ AtQuit
  /\ Dispatched(game, game, "QUIT", None)
  /\ running' = FALSE
  /\ pc' = "quit"
  /\ UNCHANGED <<quit_at, drawn, exit_code>>

\* KEYDOWN, K_r
KeyReset ==
  /\ AtEvent
  /\ Dispatched(game, reset(game), "KEYDOWN", <<"r">>)
  /\ UNCHANGED <<pc, quit_at, drawn, running, exit_code>>

\* KEYDOWN, K_1, K_2 or K_3: set_difficulty, then reset once more.
KeyDifficulty ==
  /\ AtEvent
  /\ \E k \in TierKeys :
       Dispatched(game,
                  reset(set_difficulty(game, Tiers[k].cols, Tiers[k].rows,
                                       Tiers[k].num_mines)),
                  "KEYDOWN", <<k>>)
  /\ UNCHANGED <<pc, quit_at, drawn, running, exit_code>>

\* K_h with the hinted coordinate added to the Highlight Set, and with the
\* expiry set anew when no coordinate comes.
KeyHint_Accumulates ==
  /\ AtEvent
  /\ \E hint_coord \in HintAnswers(game.board) :
       LET g0 == [game EXCEPT !.calls = <<<<"get_hint_coordinates">>>>]
       IN  \E g1 \in
               IF hint_coord # None
               THEN {[g0 EXCEPT !.highlight_targets = @ \cup {hint_coord},
                                !.highlight_until_ms = t + highlight_duration_ms,
                                !.ticks = t] : t \in Readings(game.ticks)}
               ELSE {[g0 EXCEPT !.highlight_until_ms = t + highlight_duration_ms,
                                !.ticks = t] : t \in Readings(game.ticks)} :
             Dispatched(game, g1, "KEYDOWN", <<"h", hint_coord>>)
  /\ UNCHANGED <<pc, quit_at, drawn, running, exit_code>>

\* KEYDOWN, K_h
KeyHint ==
  /\ AtEvent
  /\ \E hint_coord \in HintAnswers(game.board) :
       LET g0 == [game EXCEPT !.calls = <<<<"get_hint_coordinates">>>>]
       IN  \E g1 \in
               IF hint_coord # None
               THEN {[g0 EXCEPT !.highlight_targets = {hint_coord},
                                !.highlight_until_ms = t + highlight_duration_ms,
                                !.ticks = t] : t \in Readings(game.ticks)}
               ELSE {g0} :
             Dispatched(game, g1, "KEYDOWN", <<"h", hint_coord>>)
  /\ UNCHANGED <<pc, quit_at, drawn, running, exit_code>>

\* Another key, or an event of a type run_step does not handle.
OtherEvent ==
  /\ AtEvent
  /\ Dispatched(game, game, "OTHER", None)
  /\ UNCHANGED <<pc, quit_at, drawn, running, exit_code>>

\* MOUSEBUTTONDOWN
MouseButtonDown ==
  /\ AtEvent
  /\ \E pos \in ClickPositions, button \in Buttons :
       \E g1 \in {handle_mouse(game, pos, button, t, outcome) :
                     t \in Readings(game.ticks), outcome \in Outcomes} :
         Dispatched(game, g1, "MOUSEBUTTONDOWN",
                    <<button, pos_to_grid(game, pos[1], pos[2])>>)
  /\ UNCHANGED <<pc, quit_at, drawn, running, exit_code>>

\* The check and what follows it moved into the loop: it runs after the
\* first event.
EndCheck_InsideLoop ==
  /\ pc = "events"
  /\ handled # <<>> \/ pending = <<>>
  /\ \E t \in Readings(game.ticks) :
       game' = IF (game.board.game_over \/ game.board.win) /\ game.started
                  /\ game.end_ticks_ms = 0
               THEN [game EXCEPT !.end_ticks_ms = t, !.ticks = t,
                                 !.frozen =
                                   IF @ = None
                                   THEN <<t - game.start_ticks_ms>> ELSE @]
               ELSE game
  /\ last' = None
  /\ pc' = "draw"
  /\ UNCHANGED <<pending, quit_at, handled, drawn, running, exit_code>>

\* After the loop: the end of the game is recorded if none is recorded yet,
\* and a recorded 0 counts as none.
EndCheck ==
  /\ pc = "events"
  /\ pending = <<>>
  /\ \E t \in Readings(game.ticks) :
       game' = IF (game.board.game_over \/ game.board.win) /\ game.started
                  /\ game.end_ticks_ms = 0
               THEN [game EXCEPT !.end_ticks_ms = t, !.ticks = t,
                                 !.frozen =
                                   IF @ = None
                                   THEN <<t - game.start_ticks_ms>> ELSE @]
               ELSE game
  /\ last' = None
  /\ pc' = "draw"
  /\ UNCHANGED <<pending, quit_at, handled, drawn, running, exit_code>>

\* self.draw()
Draw ==
  /\ pc = "draw"
  /\ \E d \in {draw(game, t[1], t[2], t[3]) :
                  t \in {u \in Readings(game.ticks) \X Readings(game.ticks)
                              \X Readings(game.ticks) :
                            u[1] <= u[2] /\ u[2] <= u[3]}} :
       /\ game' = d.game
       /\ drawn' = Append(drawn, d.frame)
  /\ pc' = "tick"
  /\ UNCHANGED <<pending, quit_at, handled, last, running, exit_code>>

\* self.clock.tick(config.fps), and run_step returns True: what the model
\* remembers of the call is dropped.
Tick ==
  /\ pc = "tick"
  /\ \E t \in Readings(game.ticks) :
       game' = [game EXCEPT !.ticks = t, !.renewed = FALSE]
  /\ quit_at' = 0
  /\ handled' = <<>>
  /\ last' = None
  /\ drawn' = <<>>
  /\ pc' = "get"
  /\ UNCHANGED <<pending, running, exit_code>>

\* main leaves its loop: pygame.quit(), return 0.
MainReturn ==
  /\ pc = "quit"
  /\ ~running
  /\ exit_code' = <<0>>
  /\ pc' = "done"
  /\ UNCHANGED <<game, pending, quit_at, handled, last, drawn, running>>

Next ==
  \/ GetEvents
  \/ Quit
  \/ KeyReset
  \/ KeyDifficulty
  \/ KeyHint
  \/ OtherEvent
  \/ MouseButtonDown
  \/ EndCheck
  \/ Draw
  \/ Tick
  \/ MainReturn

Spec == Init /\ [][Next]_vars

\* main runs on: whatever step the program has, it takes.
LiveSpec == Spec /\ WF_vars(Next)

\* The flags that ten secondary clicks, each on another cell of the two rows
\* before the last, leave on the EASY grid: as many as it has mines.
ManyFlags == {<<c, 7>> : c \in 0..8} \cup {<<0, 6>>}

\* The EASY session after those clicks, before its first reveal, with the
\* clock still at 0.
FlaggedInit ==
  /\ game = [NewGame(Config(9, 9, 10)) EXCEPT !.board.flagged = ManyFlags]
  /\ pc = "get"
  /\ pending = <<>>
  /\ quit_at = 0
  /\ handled = <<>>
  /\ last = None
  /\ drawn = <<>>
  /\ running = TRUE
  /\ exit_code = None

\* main, taken up in a session that has as many flags as mines.
FlaggedSpec == FlaggedInit /\ [][Next]_vars

\* ------------------------------------------------------------ the claims
\* What the event dispatched last was.
Just(type) == last # None /\ last[1].type = type

JustKey(k) == Just("KEYDOWN") /\ last[1].detail[1] = k

\* A click of the button that pos_to_grid resolved to cell.
JustClick(button, cell) ==
  Just("MOUSEBUTTONDOWN") /\ last[1].detail[1] = button /\ last[1].detail[2] = cell

\* C1: within one session the end timestamp is written at most once: once
\* the check of run_step has recorded the end time, no later step of the
\* session changes it, whatever the clock read when the end was detected.
C1_EndTimeWrittenOnce ==
  [][(game.frozen # None /\ game'.frozen # None)
       => game'.end_ticks_ms = game.end_ticks_ms]_vars

\* C2: once the end time of a session is set, every call of _elapsed_ms
\* returns the elapsed time as it was when the end time was set.
C2_ElapsedFrozenAfterEnd ==
  game.frozen # None =>
    \A i \in DOMAIN drawn : drawn[i].elapsed = game.frozen[1]

\* C3: while started is false, _elapsed_ms returns 0 whatever the clock
\* reads, in the frames drawn and in any call that could follow.
C3_ElapsedZeroBeforeStart ==
  ~game.started =>
    /\ \A t \in 0..MaxTime : elapsed_ms(game, t) = 0
    /\ \A i \in DOMAIN drawn : drawn[i].elapsed = 0

\* The clock has run, a flag was set before any reveal, and the frame shows 0.
C3_Witness ==
  /\ pc = "tick"
  /\ ~game.started
  /\ game.ticks > 0
  /\ game.board.flagged # {}
  /\ drawn # <<>>

\* C4: a primary click on a valid cell in phase NotStarted sets started and
\* sets start_time to the clock's reading at the click; a primary click in a
\* started session leaves start_time as it is; and every primary click on a
\* valid cell calls the Board's reveal for that cell, whatever the phase.
C4_PrimaryClickStartsClockOnce ==
  [][(/\ Len(handled') = Len(handled) + 1
      /\ last'[1].type = "MOUSEBUTTONDOWN"
      /\ last'[1].detail[1] = mouse_left)
     => /\ game.started => /\ game'.started
                           /\ game'.start_ticks_ms = game.start_ticks_ms
        /\ last'[1].detail[2] # Invalid =>
             /\ game'.started
             /\ ~game.started =>
                  /\ game'.start_ticks_ms = game'.ticks
                  /\ game'.ticks \in Readings(game.ticks)
                  /\ Phase(game') = "Running"
             /\ last'[1].calls =
                  << <<"reveal", last'[1].detail[2][1], last'[1].detail[2][2]>> >>
             /\ game'.board \in
                  {reveal(game.board, last'[1].detail[2][1],
                          last'[1].detail[2][2], o) : o \in Outcomes}]_vars

\* A second primary click, in a session that started when the clock read 1.
C4_Witness ==
  /\ JustClick(mouse_left, <<0, 0>>)
  /\ last[1].phase = "Running"
  /\ game.start_ticks_ms = 1
  /\ game.ticks = 2

\* The profile a tier key selects.
TierOf(k) ==
  CASE k = "k1" -> <<9, 9, 10>>
    [] k = "k2" -> <<16, 16, 40>>
    [] k = "k3" -> <<24, 24, 99>>

\* C5: after key 1, 2 or 3, from any phase: the tier's columns, rows and mine
\* count, the window size derived from them, a new Board of that size with
\* nothing revealed, started false, both timestamps cleared and an empty
\* Highlight Set.
C5_DifficultySelected ==
  \A k \in TierKeys :
    JustKey(k) =>
      LET cols == TierOf(k)[1]
          rows == TierOf(k)[2]
          mines == TierOf(k)[3]
          w == margin_left + cols * cell_size + margin_right
          h == margin_top + rows * cell_size + margin_bottom
      IN  /\ game.config.cols = cols
          /\ game.config.rows = rows
          /\ game.config.num_mines = mines
          /\ game.config.width = w
          /\ game.config.height = h
          /\ game.config.display_dimension = <<w, h>>
          /\ game.window = <<w, h>>
          /\ last[1].calls # <<>>
          /\ last[1].calls[Len(last[1].calls)] = <<"Board", cols, rows, mines>>
          /\ game.board.cols = cols
          /\ game.board.rows = rows
          /\ game.board.num_mines = mines
          /\ game.board.revealed = {}
          /\ ~game.board.game_over /\ ~game.board.win
          /\ ~game.started
          /\ game.start_ticks_ms = 0
          /\ game.end_ticks_ms = 0
          /\ game.highlight_targets = {}

\* NORMAL is selected in a session that had ended.
C5_Witness ==
  /\ pc = "events"
  /\ JustKey("k2")
  /\ last[1].phase = "Ended"

\* C6: reset() from any phase yields NotStarted: a new Board built with the
\* current profile, the Highlight Set empty and its expiry cleared, started
\* false and both timestamps cleared; the profile and the window stay.
C6_ResetYieldsNotStarted ==
  [][(/\ Len(handled') = Len(handled) + 1
      /\ last'[1].type = "KEYDOWN"
      /\ last'[1].detail[1] = "r")
     => /\ game'.config = game.config
        /\ game'.window = game.window
        /\ last'[1].calls = << <<"Board", game.config.cols, game.config.rows,
                                 game.config.num_mines>> >>
        /\ game'.board = Board(game.config.cols, game.config.rows,
                               game.config.num_mines)
        /\ game'.renderer_board = "current"
        /\ game'.highlight_targets = {}
        /\ game'.highlight_until_ms = 0
        /\ ~game'.started
        /\ game'.start_ticks_ms = 0
        /\ game'.end_ticks_ms = 0
        /\ Phase(game') = "NotStarted"]_vars

\* A reset of a session that had ended, on the HARD grid.
C6_Witness ==
  /\ pc = "events"
  /\ JustKey("r")
  /\ last[1].phase = "Ended"
  /\ game.config.cols = 24

\* C7: whenever draw() is called, and in every frame it draws, the Board the
\* Renderer holds is the Game's current Board, its columns and rows are the
\* profile's, and the window has the size derived from that profile.
C7_DrawSeesOneProfile ==
  LET w == margin_left + game.config.cols * cell_size + margin_right
      h == margin_top + game.config.rows * cell_size + margin_bottom
  IN  /\ pc = "draw" =>
           /\ game.renderer_board = "current"
           /\ game.board.cols = game.config.cols
           /\ game.board.rows = game.config.rows
           /\ game.config.width = w /\ game.config.height = h
           /\ game.window = <<w, h>>
      /\ \A i \in DOMAIN drawn :
           /\ drawn[i].board = "current"
           /\ drawn[i].cols = game.config.cols
           /\ drawn[i].rows = game.config.rows
           /\ drawn[i].window = <<w, h>>

\* A frame drawn after the difficulty was changed to HARD, by a run_step
\* that dispatched two events.
C7_Witness ==
  /\ pc = "tick"
  /\ Len(handled) = 2
  /\ Len(drawn) = 1
  /\ drawn[1].cols = 24
  /\ drawn[1].window = <<margin_left + 24 * cell_size + margin_right,
                         margin_top + 24 * cell_size + margin_bottom>>

\* The events are dispatched in arrival order, and a frame is drawn only
\* when none is pending.
DrainedInOrder ==
  /\ handled = [i \in 1..Len(handled) |-> i]
  /\ pending = [i \in 1..Len(pending) |-> Len(handled) + i]
  /\ pc \in {"draw", "tick"} => pending = <<>>
  /\ pc = "draw" => drawn = <<>>
  /\ pc = "tick" => Len(drawn) = 1
  /\ pc \in {"get", "events"} => drawn = <<>>

\* C8, as claimed: every call of run_step dispatches all its pending events
\* in arrival order, then makes the Ended-phase check, then draws exactly one
\* frame, then waits for the tick; so a call that has returned has done so.
C8_EveryCallDrainsAndDraws ==
  /\ DrainedInOrder
  /\ pc \in {"quit", "done"} => pending = <<>> /\ Len(drawn) = 1

\* C8, amended: a call of run_step that meets no QUIT dispatches all its
\* pending events in arrival order, then checks for the end, draws exactly one
\* frame and waits for the tick; a call that meets a QUIT returns at it, with
\* the events behind it not dispatched and no frame drawn.
C8_DrainsAndDrawsUnlessQuit ==
  /\ DrainedInOrder
  /\ pc \in {"draw", "tick"} => quit_at = 0
  /\ pc \in {"quit", "done"} =>
       /\ quit_at # 0
       /\ Len(handled) = quit_at
       /\ drawn = <<>>

\* Two events were dispatched and one frame is drawn.
C8_Witness ==
  /\ pc = "tick"
  /\ Len(handled) = 2
  /\ Len(drawn) = 1

\* C9: run_step returns False exactly when a QUIT is among its pending
\* events, nothing else ends the loop, and once a QUIT has arrived main
\* returns 0 in the end.
C9_OnlyQuitEndsMain ==
  /\ [](running <=> pc \notin {"quit", "done"})
  /\ [](pc \in {"quit", "done"} <=> Just("QUIT"))
  /\ [](pc \in {"draw", "tick"} => quit_at = 0)
  /\ [](pc \in {"quit", "done"} => quit_at # 0)
  /\ [](exit_code # None <=> pc = "done")
  /\ [](exit_code # None => exit_code = <<0>>)
  /\ (quit_at # 0) ~> (pc = "done" /\ exit_code = <<0>>)

\* main has returned 0 on a QUIT that came behind a click on a mine.
C9_Witness ==
  /\ pc = "done"
  /\ exit_code = <<0>>
  /\ Len(handled) = 2
  /\ game.board.game_over

\* The pixels pos_to_grid is tried on: around each edge of the window, of
\* the grid of each tier and of the first cell.
PixelOffsets ==
  {0, cell_size - 1, cell_size, 9 * cell_size - 1, 9 * cell_size,
   16 * cell_size - 1, 16 * cell_size, 24 * cell_size - 1, 24 * cell_size}

PixelXs ==
  {-1, 0, margin_left - 1, game.config.width - 1, game.config.width}
    \cup {margin_left + d : d \in PixelOffsets}

PixelYs ==
  {-1, 0, margin_top - 1, game.config.height - 1, game.config.height}
    \cup {margin_top + d : d \in PixelOffsets}

\* C10: for every pixel and every profile reached, wherever run_step is at
\* an event that may be a click, pos_to_grid returns
\* (-1, -1) outside the playing field, and inside it the cell
\* ((x - margin_left) div cell_size, (y - margin_top) div cell_size), which is
\* a cell of the live Board.
C10_PosToGrid ==
  AtEvent =>
    \A x \in PixelXs, y \in PixelYs :
      LET inside ==
            /\ margin_left <= x
            /\ x < margin_left + game.config.cols * cell_size
            /\ margin_top <= y
            /\ y < margin_top + game.config.rows * cell_size
          cell == pos_to_grid(game, x, y)
      IN  IF inside
          THEN /\ cell = <<(x - margin_left) \div cell_size,
                           (y - margin_top) \div cell_size>>
               /\ 0 <= cell[1] /\ cell[1] < game.board.cols
               /\ 0 <= cell[2] /\ cell[2] < game.board.rows
          ELSE cell = Invalid

\* A click resolved to a cell on the HARD grid, selected by key, where the
\* pixels at the far corner resolve as claimed.
C10_Witness ==
  /\ pc = "events"
  /\ game.config.cols = 24
  /\ JustClick(mouse_right, <<0, 0>>)
  /\ pos_to_grid(game, margin_left + 24 * cell_size, margin_top) = Invalid
  /\ pos_to_grid(game, margin_left + 24 * cell_size - 1,
                 margin_top + 24 * cell_size - 1) = <<23, 23>>

\* The frame a Draw step has just added.
NewFrame == drawn'[Len(drawn')]

\* C11: a frame drawn when the clock (read at line 242) is past the expiry
\* highlights no cell, whatever the stored set holds and however many frames
\* came before; a frame drawn at or before the expiry highlights exactly the
\* unrevealed cells of the grid whose coordinates are in the stored set.
C11_HighlightExpiresOnRead ==
  [][(pc = "draw" /\ pc' = "tick")
     => IF NewFrame.at > game.highlight_until_ms
        THEN NewFrame.highlighted = {}
        ELSE NewFrame.highlighted =
               {p \in game.highlight_targets :
                   /\ InBoard(game.board, p[1], p[2])
                   /\ p \notin game.board.revealed}]_vars

\* A frame past the expiry highlights nothing although the stored set, which
\* the read at line 226 found unexpired, still holds unrevealed cells.
C11_Witness ==
  /\ pc = "tick"
  /\ game.highlight_targets \ game.board.revealed # {}
  /\ drawn[1].at > game.highlight_until_ms
  /\ drawn[1].highlighted = {}

\* A step of the loop that dispatched a click of the button.
ClickStep(button) ==
  /\ Len(handled') = Len(handled) + 1
  /\ last'[1].type = "MOUSEBUTTONDOWN"
  /\ last'[1].detail[1] = button

\* The cell the click just dispatched resolved to.
ClickedCell == last'[1].detail[2]

\* The session clock is as it was before the step.
ClockUnchanged ==
  /\ game'.started = game.started
  /\ game'.start_ticks_ms = game.start_ticks_ms
  /\ game'.end_ticks_ms = game.end_ticks_ms

\* C12: a tertiary click on a valid cell replaces the Highlight Set, whatever
\* it held, by the cell's neighbors that are unrevealed at the click, and sets
\* the expiry to the clock's reading at the click plus the highlight
\* duration; the Board and the session clock stay as they were.
C12_PreviewReplacesHighlight ==
  [][(ClickStep(mouse_middle) /\ ClickedCell # Invalid)
     => /\ game'.highlight_targets =
             {p \in neighbors(game.board, ClickedCell[1], ClickedCell[2]) :
                 p \notin game.board.revealed}
        /\ game'.highlight_until_ms = game'.ticks + highlight_duration_ms
        /\ game'.ticks \in Readings(game.ticks)
        /\ last'[1].calls = << <<"neighbors", ClickedCell[1], ClickedCell[2]>> >>
        /\ game'.board = game.board
        /\ ClockUnchanged]_vars

\* A tertiary click on cell (0, 0) that found the hint (8, 8) in the set and
\* left the three hidden neighbors of the corner in it.
C12_Witness ==
  /\ JustClick(mouse_middle, <<0, 0>>)
  /\ last[1].highlight = {<<8, 8>>}
  /\ game.highlight_targets = {<<1, 0>>, <<0, 1>>, <<1, 1>>}
  /\ game.highlight_until_ms = game.ticks + highlight_duration_ms

\* C13: the hint key, when get_hint_coordinates() gives no coordinate, leaves
\* the Highlight Set and its expiry exactly as they were; when it gives a
\* coordinate, (0, 0) included, the set becomes the singleton of it and the
\* expiry the clock's reading plus the highlight duration.  Either way the
\* session clock and the Board are unchanged.
C13_HintSetsSingletonOrNothing ==
  [][(/\ Len(handled') = Len(handled) + 1
      /\ last'[1].type = "KEYDOWN"
      /\ last'[1].detail[1] = "h")
     => /\ last'[1].calls = << <<"get_hint_coordinates">> >>
        /\ IF last'[1].detail[2] = None
           THEN /\ game'.highlight_targets = game.highlight_targets
                /\ game'.highlight_until_ms = game.highlight_until_ms
           ELSE /\ game'.highlight_targets = {last'[1].detail[2]}
                /\ game'.highlight_until_ms =
                     game'.ticks + highlight_duration_ms
                /\ game'.ticks \in Readings(game.ticks)
        /\ game'.board = game.board
        /\ ClockUnchanged
        /\ Phase(game') = Phase(game)]_vars

\* A hint that gave no coordinate, in a running session whose Highlight Set
\* holds the neighbors a tertiary click put there: they are still there.
C13_Witness ==
  /\ JustKey("h")
  /\ last[1].detail[2] = None
  /\ last[1].phase = "Running"
  /\ last[1].highlight = {<<1, 0>>, <<0, 1>>, <<1, 1>>}
  /\ game.highlight_targets = last[1].highlight
  /\ game.highlight_until_ms > 0

\* C14: a click of any button whose position resolves to the invalid
\* coordinate changes nothing: the Highlight Set and its expiry, started, the
\* two timestamps and the Board are as before, no Board method is called and
\* the clock is not read.
C14_InvalidClickIsNoOp ==
  [][(/\ Len(handled') = Len(handled) + 1
      /\ last'[1].type = "MOUSEBUTTONDOWN"
      /\ ClickedCell = Invalid)
     => /\ game'.highlight_targets = game.highlight_targets
        /\ game'.highlight_until_ms = game.highlight_until_ms
        /\ ClockUnchanged
        /\ game'.board = game.board
        /\ game'.ticks = game.ticks
        /\ last'[1].calls = <<>>
        /\ game' = game]_vars

\* A primary click outside the grid before the first reveal, with a hint
\* highlighted: the session is still not started and the hint still stored.
C14_Witness ==
  /\ JustClick(mouse_left, Invalid)
  /\ last[1].phase = "NotStarted"
  /\ ~game.started
  /\ last[1].highlight = {<<0, 0>>}
  /\ game.highlight_targets = {<<0, 0>>}
  /\ game.highlight_until_ms > 0

\* C15: after a primary or a secondary click on a valid cell the Highlight
\* Set is empty, whatever it held and whether or not its expiry had passed,
\* and the click has made its one Board call, reveal or toggle_flag.
C15_ValidClickClearsHighlight ==
  [][((ClickStep(mouse_left) \/ ClickStep(mouse_right)) /\ ClickedCell # Invalid)
     => /\ game'.highlight_targets = {}
        /\ game'.highlight_until_ms = game.highlight_until_ms
        /\ Len(last'[1].calls) = 1
        /\ last'[1].calls[1][1] =
             (IF last'[1].detail[1] = mouse_left THEN "reveal"
              ELSE "toggle_flag")]_vars

\* A secondary click that found three highlighted neighbors, their expiry
\* not yet passed at the last reading of the clock, and emptied the set.
C15_Witness ==
  /\ JustClick(mouse_right, <<0, 0>>)
  /\ last[1].highlight = {<<1, 0>>, <<0, 1>>, <<1, 1>>}
  /\ game.highlight_until_ms >= game.ticks
  /\ game.highlight_targets = {}
  /\ game.board.flagged = {<<0, 0>>}

\* C16: a secondary click on a valid cell calls the Board's toggle_flag for
\* that cell in every phase and leaves started and both timestamps, and so
\* the phase, as they were: a flag before the first reveal starts no clock.
C16_FlagLeavesClock ==
  [][(ClickStep(mouse_right) /\ ClickedCell # Invalid)
     => /\ last'[1].calls =
             << <<"toggle_flag", ClickedCell[1], ClickedCell[2]>> >>
        /\ game'.board = toggle_flag(game.board, ClickedCell[1], ClickedCell[2])
        /\ ClockUnchanged
        /\ Phase(game') = Phase(game)
        /\ last'[1].phase = Phase(game)]_vars

\* A flag taken off again before the first reveal, the clock having run on.
C16_Witness ==
  /\ JustClick(mouse_right, <<0, 0>>)
  /\ last[1].phase = "NotStarted"
  /\ Len(handled) = 2
  /\ game.board.flagged = {}
  /\ game.ticks > 0
  /\ ~game.started
  /\ game.start_ticks_ms = 0

\* C17: in every frame the remaining-mine count of the header is the
\* profile's mine count minus flagged_count(), or 0 where that is negative:
\* 0 whenever more cells are flagged than there are mines, and never
\* negative, after any flag toggles, resets and difficulty changes.
C17_RemainingMinesClamped ==
  \A i \in DOMAIN drawn :
    LET mines == game.config.num_mines
        flags == flagged_count(game.board)
    IN  /\ mines \in {Tiers[k].num_mines : k \in TierKeys}
        /\ drawn[i].remaining >= 0
        /\ flags <= mines => drawn[i].remaining = mines - flags
        /\ flags > mines => drawn[i].remaining = 0

\* A frame of the EASY session with eleven flags: the header shows 0.
C17_Witness ==
  /\ pc = "tick"
  /\ game.config.num_mines = 10
  /\ game.board.flagged = ManyFlags \cup {<<0, 0>>}
  /\ flagged_count(game.board) = 11
  /\ drawn[1].remaining = 0

\* The overlay of frame i is the one the Board's flags call for: the text
\* draw_result_overlay is given, and None for no overlay.
OverlayMatchesBoard(i) ==
  /\ drawn[i].result \in {"GAME OVER", "GAME CLEAR", NoText}
  /\ drawn[i].result = "GAME OVER" <=> game.board.game_over
  /\ drawn[i].result = "GAME CLEAR" <=> game.board.win
  /\ drawn[i].result = NoText <=> (~game.board.game_over /\ ~game.board.win)

\* C18, as claimed: every frame shows "GAME OVER" exactly when the Board
\* reports game_over, "GAME CLEAR" exactly when it reports win and no overlay
\* when it reports neither; and the frame of a run_step in which reset() has
\* run, by the reset key or a difficulty key, shows no overlay.
C18_OverlayGoneAfterReset ==
  \A i \in DOMAIN drawn :
    /\ OverlayMatchesBoard(i)
    /\ game.renewed => drawn[i].result = NoText

\* C18, amended: every frame shows the overlay the Board's flags call for,
\* at most one text; and a frame drawn after a reset or a difficulty change,
\* with no primary click on a cell since, shows no overlay.
C18_OverlayFollowsBoard ==
  \A i \in DOMAIN drawn :
    /\ OverlayMatchesBoard(i)
    /\ ~game.started => drawn[i].result = NoText

\* The frame of a run_step that reset the session and then revealed the last
\* safe cell shows "GAME CLEAR".
C18_Witness ==
  /\ pc = "tick"
  /\ game.renewed
  /\ game.started
  /\ game.board.win
  /\ drawn[1].result = "GAME CLEAR"

\* The Board reports the end of the game.
BoardEnded == game.board.game_over \/ game.board.win

\* C19: if the end time is set then started is true, the Board reports
\* game_over or win, and start_time <= end_time; and in every frame drawn
\* while the Board reports game_over or win and started is true the end time
\* is set already, so that the frame shows the frozen time.
C19_PhaseConsistent ==
  /\ game.end_ticks_ms # 0 =>
       /\ game.started
       /\ BoardEnded
       /\ game.start_ticks_ms <= game.end_ticks_ms
  /\ \A i \in DOMAIN drawn :
       (BoardEnded /\ game.started) =>
         /\ game.frozen # None
         /\ game.end_ticks_ms # 0
         /\ drawn[i].elapsed = game.end_ticks_ms - game.start_ticks_ms
         /\ drawn[i].elapsed = game.frozen[1]

\* C20: after any clicks, hints, resets and difficulty changes every
\* coordinate in the Highlight Set is a cell of the current Board, and so is
\* every cell a frame highlights: none is left from a discarded Board.
C20_HighlightWithinBoard ==
  /\ \A p \in game.highlight_targets :
       /\ 0 <= p[1] /\ p[1] < game.board.cols
       /\ 0 <= p[2] /\ p[2] < game.board.rows
  /\ \A i \in DOMAIN drawn :
       \A p \in drawn[i].highlighted :
         /\ 0 <= p[1] /\ p[1] < game.board.cols
         /\ 0 <= p[2] /\ p[2] < game.board.rows

\* EASY was selected while the hint at the far corner of the HARD grid was
\* in the set, its expiry not passed at the last reading of the clock.
C20_Witness ==
  /\ JustKey("k1")
  /\ last[1].highlight = {<<23, 23>>}
  /\ game.ticks <= highlight_duration_ms
  /\ game.board.cols = 9
  /\ game.highlight_targets = {}

====
